---- MODULE Spec2Model ----
(***************************************************************************)
(* Model of the user service of iTukaev/rout256 (src/internal/api/api.go): *)
(* the Transport Adapter (type implementation, the pb.UserServer), the     *)
(* Domain Service (type core) and the Storage Port (repoPkg.Interface)     *)
(* the Domain Service consumes.                                            *)
(*                                                                         *)
(* Error values are modelled by the sentinel they match under errors.Is;   *)
(* the sentinels api.go imports from localPkg and the ones the core        *)
(* imports from errorsPkg are the same conditions and share one name here. *)
(***************************************************************************)
EXTENDS Integers, Sequences, FiniteSets, TLC

VARIABLES
    data,      \* the Storage Port's records, in insertion order
    last,      \* the transport call that ran last: request, outcome, response
    calls,     \* the Storage Port invocations the last call made, in order
    logs,      \* the log records the last call emitted, in order
    created,   \* names for which a Create has ever succeeded
    hist,      \* the last HistLen calls (kept by SpecSeq only)
    proc       \* the calls in flight, one per caller (run by SpecConc only)

vars == <<data, last, calls, logs, created, hist, proc>>

----------------------------------------------------------------------------
(* Bounds and input sets *)

MaxRecords == 3      \* records the Storage Port holds at most
MaxLimit == 2        \* largest page size requested from List
MaxOffset == 1       \* largest offset requested from List
HistLen == 3         \* calls the history of SpecSeq remembers

Names == {"", "a"}
Passwords == {"p1", "p2"}
Procs == {"c1", "c2"}   \* concurrent callers

----------------------------------------------------------------------------
(* Error values and status codes *)

NoFault == "NoFault"  \* a Storage Port invocation that does not fail on its own
Nil == "nil"
ErrOther == "ErrOther"            \* an error that matches no sentinel
ErrTimeout == "ErrTimeout"
ErrUserNotFound == "ErrUserNotFound"
ErrUserAlreadyExists == "ErrUserAlreadyExists"
ErrValidation == "ErrValidation"

Errors == {ErrValidation, ErrUserAlreadyExists, ErrUserNotFound, ErrTimeout, ErrOther}

OK == "OK"
InvalidArgument == "InvalidArgument"
AlreadyExists == "AlreadyExists"
DeadlineExceeded == "DeadlineExceeded"
Internal == "Internal"

\* A lookup of the Storage Port answers not-found exactly when no record is
\* there; any other failure may be injected.  A write or a list may fail with
\* any error value.
GetFaults == {NoFault} \cup (Errors \ {ErrUserNotFound})
WriteFaults == {NoFault} \cup Errors

User(n, p) == [name |-> n, password |-> p]
NoUser == [name |-> "", password |-> ""]
NoArg == "-"         \* a field a request or a log record does not carry

----------------------------------------------------------------------------
(* Storage Port: repoPkg.Interface.  A failed invocation has no effect. *)

RECURSIVE Filter(_, _)
Filter(s, n) ==
    IF s = <<>> THEN <<>>
    ELSE IF Head(s).name = n THEN Filter(Tail(s), n)
         ELSE <<Head(s)>> \o Filter(Tail(s), n)

RECURSIVE Reverse(_)
Reverse(s) == IF s = <<>> THEN <<>> ELSE Reverse(Tail(s)) \o <<Head(s)>>

Records(s, n) == {i \in 1..Len(s) : s[i].name = n}

Call(fn, err) == [fn |-> fn, err |-> err]

DataUserGet(s, n, f) ==
    IF f # NoFault THEN [err |-> f, user |-> NoUser]
    ELSE IF Records(s, n) = {} THEN [err |-> ErrUserNotFound, user |-> NoUser]
    ELSE [err |-> Nil,
          user |-> s[CHOOSE i \in Records(s, n) : \A j \in Records(s, n) : i <= j]]

\* create appends; it does not look for an existing record
DataUserCreate(s, u, f) ==
    IF f # NoFault THEN [err |-> f, data |-> s]
    ELSE [err |-> Nil, data |-> Append(s, u)]

DataUserUpdate(s, u, f) ==
    IF f # NoFault THEN [err |-> f, data |-> s]
    ELSE [err |-> Nil,
          data |-> [i \in 1..Len(s) |-> IF s[i].name = u.name THEN u ELSE s[i]]]

DataUserDelete(s, n, f) ==
    IF f # NoFault THEN [err |-> f, data |-> s]
    ELSE [err |-> Nil, data |-> Filter(s, n)]

Page(s, limit, offset) ==
    IF offset >= Len(s) THEN <<>>
    ELSE SubSeq(s, offset + 1, IF offset + limit < Len(s) THEN offset + limit ELSE Len(s))

DataUserList(s, order, limit, offset, f) ==
    IF f # NoFault THEN [err |-> f, users |-> <<>>]
    ELSE [err |-> Nil,
          users |-> Page(IF order THEN s ELSE Reverse(s), limit, offset)]

----------------------------------------------------------------------------
(* Domain Service: type core.  Each operator is one call: its result, the  *)
(* storage it leaves, the Storage Port invocations it made and the record  *)
(* it handed to its logger.                                                *)

\* c.logger.Debug(op, args...): the record holds every argument it is given
Debug(op, name, password, more) ==
    [src |-> "core", op |-> op, name |-> name, password |-> password, more |-> more]

\* Create without the existence check: a found record does not stop the write
CoreCreateNoCheck(s, user, f1, f2) ==
    LET g == DataUserGet(s, user.name, f1)
        c == DataUserCreate(s, user, f2)
        lg == <<Debug("Create", user.name, user.password, <<>>)>>
    IN  IF g.err # Nil /\ g.err # ErrUserNotFound
        THEN [err |-> g.err, data |-> s,
              calls |-> <<Call("UserGet", g.err)>>, logs |-> lg]
        ELSE [err |-> c.err, data |-> c.data,
              calls |-> <<Call("UserGet", g.err), Call("UserCreate", c.err)>>,
              logs |-> lg]

\* Create that takes every failed lookup for "no such record"
CoreCreateAnyLookupError(s, user, f1, f2) ==
    LET g == DataUserGet(s, user.name, f1)
        c == DataUserCreate(s, user, f2)
        lg == <<Debug("Create", user.name, user.password, <<>>)>>
    IN  IF g.err = Nil
        THEN [err |-> ErrUserAlreadyExists, data |-> s,
              calls |-> <<Call("UserGet", g.err)>>, logs |-> lg]
        ELSE [err |-> c.err, data |-> c.data,
              calls |-> <<Call("UserGet", g.err), Call("UserCreate", c.err)>>,
              logs |-> lg]

\* Create that reports every lookup result but not-found as "already exists"
CoreCreateMasksLookupError(s, user, f1, f2) ==
    LET g == DataUserGet(s, user.name, f1)
        c == DataUserCreate(s, user, f2)
        lg == <<Debug("Create", user.name, user.password, <<>>)>>
    IN  IF g.err # ErrUserNotFound
        THEN [err |-> ErrUserAlreadyExists, data |-> s,
              calls |-> <<Call("UserGet", g.err)>>, logs |-> lg]
        ELSE [err |-> c.err, data |-> c.data,
              calls |-> <<Call("UserGet", g.err), Call("UserCreate", c.err)>>,
              logs |-> lg]

CoreCreate(s, user, f1, f2) ==
    LET g == DataUserGet(s, user.name, f1)
        c == DataUserCreate(s, user, f2)
        lg == <<Debug("Create", user.name, user.password, <<>>)>>
    IN  IF g.err = Nil
        THEN [err |-> ErrUserAlreadyExists, data |-> s,
              calls |-> <<Call("UserGet", g.err)>>, logs |-> lg]
        ELSE IF g.err # ErrUserNotFound
        THEN [err |-> g.err, data |-> s,
              calls |-> <<Call("UserGet", g.err)>>, logs |-> lg]
        ELSE [err |-> c.err, data |-> c.data,
              calls |-> <<Call("UserGet", g.err), Call("UserCreate", c.err)>>,
              logs |-> lg]

\* Update that drops the result of its lookup
CoreUpdateNoLookup(s, user, f1, f2) ==
    LET g == DataUserGet(s, user.name, f1)
        u == DataUserUpdate(s, user, f2)
        lg == <<Debug("Update", user.name, user.password, <<>>)>>
    IN  [err |-> u.err, data |-> u.data,
         calls |-> <<Call("UserGet", g.err), Call("UserUpdate", u.err)>>,
         logs |-> lg]

\* Update that stops on a not-found lookup only
CoreUpdateStopsOnNotFoundOnly(s, user, f1, f2) ==
    LET g == DataUserGet(s, user.name, f1)
        u == DataUserUpdate(s, user, f2)
        lg == <<Debug("Update", user.name, user.password, <<>>)>>
    IN  IF g.err = ErrUserNotFound
        THEN [err |-> g.err, data |-> s,
              calls |-> <<Call("UserGet", g.err)>>, logs |-> lg]
        ELSE [err |-> u.err, data |-> u.data,
              calls |-> <<Call("UserGet", g.err), Call("UserUpdate", u.err)>>,
              logs |-> lg]

CoreUpdate(s, user, f1, f2) ==
    LET g == DataUserGet(s, user.name, f1)
        u == DataUserUpdate(s, user, f2)
        lg == <<Debug("Update", user.name, user.password, <<>>)>>
    IN  IF g.err # Nil
        THEN [err |-> g.err, data |-> s,
              calls |-> <<Call("UserGet", g.err)>>, logs |-> lg]
        ELSE [err |-> u.err, data |-> u.data,
              calls |-> <<Call("UserGet", g.err), Call("UserUpdate", u.err)>>,
              logs |-> lg]

\* Delete that drops the result of its lookup
CoreDeleteNoLookup(s, name, f1, f2) ==
    LET g == DataUserGet(s, name, f1)
        d == DataUserDelete(s, name, f2)
        lg == <<Debug("Delete", name, NoArg, <<>>)>>
    IN  [err |-> d.err, data |-> d.data,
         calls |-> <<Call("UserGet", g.err), Call("UserDelete", d.err)>>,
         logs |-> lg]

\* Delete that reports success whatever the storage delete answered
CoreDeleteSwallow(s, name, f1, f2) ==
    LET g == DataUserGet(s, name, f1)
        d == DataUserDelete(s, name, f2)
        lg == <<Debug("Delete", name, NoArg, <<>>)>>
    IN  IF g.err # Nil
        THEN [err |-> g.err, data |-> s,
              calls |-> <<Call("UserGet", g.err)>>, logs |-> lg]
        ELSE [err |-> Nil, data |-> d.data,
              calls |-> <<Call("UserGet", g.err), Call("UserDelete", d.err)>>,
              logs |-> lg]

CoreDelete(s, name, f1, f2) ==
    LET g == DataUserGet(s, name, f1)
        d == DataUserDelete(s, name, f2)
        lg == <<Debug("Delete", name, NoArg, <<>>)>>
    IN  IF g.err # Nil
        THEN [err |-> g.err, data |-> s,
              calls |-> <<Call("UserGet", g.err)>>, logs |-> lg]
        ELSE [err |-> d.err, data |-> d.data,
              calls |-> <<Call("UserGet", g.err), Call("UserDelete", d.err)>>,
              logs |-> lg]

\* Get that asks the Storage Port again after a timeout
CoreGetRetry(s, name, f1) ==
    LET g == DataUserGet(s, name, f1)
    IN  [err |-> g.err, user |-> g.user, data |-> s,
         calls |-> IF g.err = ErrTimeout
                   THEN <<Call("UserGet", g.err), Call("UserGet", g.err)>>
                   ELSE <<Call("UserGet", g.err)>>,
         logs |-> <<Debug("Get", name, NoArg, <<>>)>>]

\* Get that answers a missing record with an empty user and no error
CoreGetHidesNotFound(s, name, f1) ==
    LET g == DataUserGet(s, name, f1)
    IN  [err |-> IF g.err = ErrUserNotFound THEN Nil ELSE g.err,
         user |-> g.user, data |-> s,
         calls |-> <<Call("UserGet", g.err)>>,
         logs |-> <<Debug("Get", name, NoArg, <<>>)>>]

CoreGet(s, name, f1) ==
    LET g == DataUserGet(s, name, f1)
    IN  [err |-> g.err, user |-> g.user, data |-> s,
         calls |-> <<Call("UserGet", g.err)>>,
         logs |-> <<Debug("Get", name, NoArg, <<>>)>>]

\* List that hands limit and offset to the Storage Port in each other's place
CoreListSwapped(s, order, limit, offset, f1) ==
    LET l == DataUserList(s, order, offset, limit, f1)
    IN  [err |-> l.err, users |-> l.users, data |-> s,
         calls |-> <<Call("UserList", l.err)>>,
         logs |-> <<Debug("List", NoArg, NoArg, <<order, limit, offset>>)>>]

CoreList(s, order, limit, offset, f1) ==
    LET l == DataUserList(s, order, limit, offset, f1)
    IN  [err |-> l.err, users |-> l.users, data |-> s,
         calls |-> <<Call("UserList", l.err)>>,
         logs |-> <<Debug("List", NoArg, NoArg, <<order, limit, offset>>)>>]

----------------------------------------------------------------------------
(* Transport Adapter: type implementation.  The reply of each handler as a *)
(* function of the Domain Service's result: the status code and message,   *)
(* whether the response pointer is nil, and the users the response holds.  *)

Failure(code, err) == [code |-> code, msg |-> err, respNil |-> TRUE, users |-> <<>>]
Success(users) == [code |-> OK, msg |-> NoArg, respNil |-> FALSE, users |-> users]

\* log.Printf("user [%s] <op>: %v", in.GetName(), err)
Printf(op, name, err) ==
    [src |-> "api", op |-> op, name |-> name, password |-> NoArg, more |-> <<err>>]

CreateReply(err) ==
    IF err # Nil
    THEN CASE err = ErrValidation -> Failure(InvalidArgument, err)
           [] err = ErrUserAlreadyExists -> Failure(AlreadyExists, err)
           [] err = ErrTimeout -> Failure(DeadlineExceeded, err)
           [] OTHER -> Failure(Internal, err)
    ELSE Success(<<>>)

\* UserUpdate without the ErrUserNotFound case
UpdateReplyNoNotFound(err) ==
    IF err # Nil
    THEN CASE err = ErrValidation -> Failure(InvalidArgument, err)
           [] err = ErrTimeout -> Failure(DeadlineExceeded, err)
           [] OTHER -> Failure(Internal, err)
    ELSE Success(<<>>)

UpdateReply(err) ==
    IF err # Nil
    THEN CASE err = ErrValidation \/ err = ErrUserNotFound -> Failure(InvalidArgument, err)
           [] err = ErrTimeout -> Failure(DeadlineExceeded, err)
           [] OTHER -> Failure(Internal, err)
    ELSE Success(<<>>)

DeleteReply(err) ==
    IF err # Nil
    THEN CASE err = ErrValidation \/ err = ErrUserNotFound -> Failure(InvalidArgument, err)
           [] err = ErrTimeout -> Failure(DeadlineExceeded, err)
           [] OTHER -> Failure(Internal, err)
    ELSE Success(<<>>)

GetReply(user, err) ==
    IF err # Nil
    THEN CASE err = ErrValidation \/ err = ErrUserNotFound -> Failure(InvalidArgument, err)
           [] err = ErrTimeout -> Failure(DeadlineExceeded, err)
           [] OTHER -> Failure(Internal, err)
    ELSE Success(<<User(user.name, user.password)>>)

\* UserList that answers a timeout as the other handlers do: no response
ListReplyNilOnTimeout(users, err) ==
    IF err = ErrTimeout
    THEN Failure(DeadlineExceeded, err)
    ELSE Success(users)

\* UserList that answers every failure as the other handlers do
ListReplyPropagates(users, err) ==
    IF err # Nil
    THEN CASE err = ErrTimeout ->
                [code |-> DeadlineExceeded, msg |-> err, respNil |-> FALSE,
                 users |-> <<>>]
           [] OTHER -> Failure(Internal, err)
    ELSE Success(users)

\* UserList tests the error for ErrTimeout only; any other result, failed or
\* not, is answered with the users the Domain Service returned
ListReply(users, err) ==
    IF err = ErrTimeout
    THEN [code |-> DeadlineExceeded, msg |-> err, respNil |-> FALSE, users |-> <<>>]
    ELSE Success(users)

----------------------------------------------------------------------------
(* State machine: one action per handler of the Transport Adapter, each    *)
(* the whole call (handler, Domain Service operation, Storage Port calls). *)

Request(op, name, password, order, limit, offset) ==
    [op |-> op, name |-> name, password |-> password,
     order |-> order, limit |-> limit, offset |-> offset]

\* what the caller of the handler observes, with the storage before the call
Outcome(req, r, reply, before) ==
    [op |-> req.op, name |-> req.name, password |-> req.password,
     order |-> req.order, limit |-> req.limit, offset |-> req.offset,
     err |-> r.err, code |-> reply.code, msg |-> reply.msg,
     respNil |-> reply.respNil, users |-> reply.users, pre |-> before]

\* a caller that has not called yet
Idle ==
    [pc |-> "idle", op |-> "none", name |-> NoArg, password |-> NoArg,
     got |-> NoArg, ans |-> NoArg, err |-> Nil, code |-> NoArg,
     hadAtLookup |-> FALSE, hadAtWrite |-> FALSE,
     ctx |-> "none", returned |-> 0]

Init ==
    /\ proc = [p \in Procs |-> Idle]
    /\ data = <<>>
    /\ last = [op |-> "none", name |-> NoArg, password |-> NoArg,
               order |-> FALSE, limit |-> 0, offset |-> 0,
               err |-> Nil, code |-> OK, msg |-> NoArg,
               respNil |-> TRUE, users |-> <<>>, pre |-> <<>>]
    /\ calls = <<>>
    /\ logs = <<>>
    /\ created = {}
    /\ hist = <<>>

UserCreate(n, p, f1, f2) ==
    LET r == CoreCreate(data, User(n, p), f1, f2)
    IN  /\ Len(data) < MaxRecords
        /\ data' = r.data
        /\ calls' = r.calls
        /\ logs' = r.logs \o (IF r.err # Nil THEN <<Printf("create", n, r.err)>> ELSE <<>>)
        /\ last' = Outcome(Request("UserCreate", n, p, FALSE, 0, 0), r,
                           CreateReply(r.err), data)
        /\ created' = IF r.err = Nil THEN created \cup {n} ELSE created

UserUpdate(n, p, f1, f2) ==
    LET r == CoreUpdate(data, User(n, p), f1, f2)
    IN  /\ data' = r.data
        /\ calls' = r.calls
        /\ logs' = r.logs \o (IF r.err # Nil THEN <<Printf("update", n, r.err)>> ELSE <<>>)
        /\ last' = Outcome(Request("UserUpdate", n, p, FALSE, 0, 0), r,
                           UpdateReply(r.err), data)
        /\ UNCHANGED created

UserDelete(n, f1, f2) ==
    LET r == CoreDelete(data, n, f1, f2)
    IN  /\ data' = r.data
        /\ calls' = r.calls
        /\ logs' = r.logs \o (IF r.err # Nil THEN <<Printf("delete", n, r.err)>> ELSE <<>>)
        /\ last' = Outcome(Request("UserDelete", n, NoArg, FALSE, 0, 0), r,
                           DeleteReply(r.err), data)
        /\ UNCHANGED created

UserGet(n, f1) ==
    LET r == CoreGet(data, n, f1)
    IN  /\ data' = r.data
        /\ calls' = r.calls
        /\ logs' = r.logs \o (IF r.err # Nil THEN <<Printf("get", n, r.err)>> ELSE <<>>)
        /\ last' = Outcome(Request("UserGet", n, NoArg, FALSE, 0, 0), r,
                           GetReply(r.user, r.err), data)
        /\ UNCHANGED created

\* UserList discards its request; order, limit and offset are the arguments
\* the Domain Service's List is called with
UserList(order, limit, offset, f1) ==
    LET r == CoreList(data, order, limit, offset, f1)
    IN  /\ data' = r.data
        /\ calls' = r.calls
        /\ logs' = r.logs
        /\ last' = Outcome(Request("UserList", NoArg, NoArg, order, limit, offset), r,
                           ListReply(r.users, r.err), data)
        /\ UNCHANGED created

Next ==
    \/ \E n \in Names, p \in Passwords, f1 \in GetFaults, f2 \in WriteFaults :
          UserCreate(n, p, f1, f2) /\ UNCHANGED <<hist, proc>>
    \/ \E n \in Names, p \in Passwords, f1 \in GetFaults, f2 \in WriteFaults :
          UserUpdate(n, p, f1, f2) /\ UNCHANGED <<hist, proc>>
    \/ \E n \in Names, f1 \in GetFaults, f2 \in WriteFaults :
          UserDelete(n, f1, f2) /\ UNCHANGED <<hist, proc>>
    \/ \E n \in Names, f1 \in GetFaults :
          UserGet(n, f1) /\ UNCHANGED <<hist, proc>>
    \/ \E order \in BOOLEAN, limit \in 0..MaxLimit, offset \in 0..MaxOffset,
          f1 \in WriteFaults :
          UserList(order, limit, offset, f1) /\ UNCHANGED <<hist, proc>>

Spec == Init /\ [][Next]_vars

----------------------------------------------------------------------------
(* Sequential scenarios: the same handlers with a Storage Port that never  *)
(* fails on its own (a lookup of an absent name still answers not-found),  *)
(* and a history of the last HistLen calls.                                *)

\* what the history keeps of a call: the request, the Domain Service's result
\* and whether a record of that name was stored when the call began
Entry(o) ==
    [op |-> o.op, name |-> o.name, password |-> o.password, err |-> o.err,
     had |-> Records(o.pre, o.name) # {}]

Trace ==
    LET h == Append(hist, Entry(last'))
    IN  /\ hist' = IF Len(h) > HistLen THEN Tail(h) ELSE h
        /\ UNCHANGED proc

NextSeq ==
    \/ \E n \in Names, p \in Passwords : UserCreate(n, p, NoFault, NoFault) /\ Trace
    \/ \E n \in Names, p \in Passwords : UserUpdate(n, p, NoFault, NoFault) /\ Trace
    \/ \E n \in Names : UserDelete(n, NoFault, NoFault) /\ Trace
    \/ \E n \in Names : UserGet(n, NoFault) /\ Trace
    \/ \E order \in BOOLEAN : UserList(order, MaxLimit, 0, NoFault) /\ Trace

SpecSeq == Init /\ [][NextSeq]_vars

----------------------------------------------------------------------------
(* Listing: List on a storage that holds records of up to four names,     *)
(* inserted in any order.                                                  *)

ListNames == {"a", "b", "c", "d"}

\* the storages a run of Creates of distinct names leaves
ListStores ==
    {s \in UNION {[1..k -> {User(n, "p1") : n \in ListNames}] :
                    k \in 0..Cardinality(ListNames)} :
        \A i, j \in 1..Len(s) : i # j => s[i].name # s[j].name}

InitList ==
    /\ proc = [p \in Procs |-> Idle]
    /\ data \in ListStores
    /\ last = [op |-> "none", name |-> NoArg, password |-> NoArg,
               order |-> FALSE, limit |-> 0, offset |-> 0,
               err |-> Nil, code |-> OK, msg |-> NoArg,
               respNil |-> TRUE, users |-> <<>>, pre |-> <<>>]
    /\ calls = <<>>
    /\ logs = <<>>
    /\ created = {data[i].name : i \in 1..Len(data)}
    /\ hist = <<>>

NextList ==
    \E order \in BOOLEAN, limit \in 0..MaxLimit, offset \in 0..MaxOffset,
       f1 \in WriteFaults :
       UserList(order, limit, offset, f1) /\ UNCHANGED <<hist, proc>>

SpecList == InitList /\ [][NextList]_vars

----------------------------------------------------------------------------
(* Concurrent calls: each caller makes one call, and the call advances one *)
(* Storage Port invocation at a time, so the invocations of two calls      *)
(* interleave.  A call is: the handler derives its context and enters the  *)
(* Domain Service (Begin); the first Storage Port invocation (First); the  *)
(* write, when the Domain Service goes on to it (Second); the handler's    *)
(* return, with the deferred cancel (Reply).                               *)

ConcNames == {"a"}     \* the name the concurrent calls contend for

\* a core that lets one call at a time between its lookup and its write
AdmitExclusive(pr, p) == \A q \in Procs \ {p} : pr[q].pc # "second"

\* type core holds the Storage Port and the logger and no lock: a call's
\* Storage Port invocation waits for no other call
Admit(pr, p) == TRUE

\* a Domain Service whose Update writes whatever its lookup answered
AfterFirstUpdateWrites(op, err) ==
    CASE op = "UserCreate" ->
            IF err = Nil THEN [pc |-> "reply", err |-> ErrUserAlreadyExists]
            ELSE IF err # ErrUserNotFound THEN [pc |-> "reply", err |-> err]
            ELSE [pc |-> "second", err |-> Nil]
      [] op = "UserDelete" ->
            IF err # Nil THEN [pc |-> "reply", err |-> err]
            ELSE [pc |-> "second", err |-> Nil]
      [] op = "UserUpdate" -> [pc |-> "second", err |-> Nil]
      [] OTHER -> [pc |-> "reply", err |-> err]

\* what the Domain Service does with the answer of its first invocation:
\* go on to the write, or return
AfterFirst(op, err) ==
    CASE op = "UserCreate" ->
            IF err = Nil THEN [pc |-> "reply", err |-> ErrUserAlreadyExists]
            ELSE IF err # ErrUserNotFound THEN [pc |-> "reply", err |-> err]
            ELSE [pc |-> "second", err |-> Nil]
      [] op \in {"UserUpdate", "UserDelete"} ->
            IF err # Nil THEN [pc |-> "reply", err |-> err]
            ELSE [pc |-> "second", err |-> Nil]
      [] OTHER -> [pc |-> "reply", err |-> err]

\* the handler's status for the Domain Service's result
CodeOf(op, err) ==
    CASE op = "UserCreate" -> CreateReply(err).code
      [] op = "UserUpdate" -> UpdateReply(err).code
      [] op = "UserDelete" -> DeleteReply(err).code
      [] op = "UserGet" -> GetReply(NoUser, err).code
      [] OTHER -> ListReply(<<>>, err).code

InitConc ==
    /\ proc = [p \in Procs |-> Idle]
    /\ data \in {<<>>} \cup {<<User(n, pw)>> : n \in ConcNames, pw \in Passwords}
    /\ last = [op |-> "none", name |-> NoArg, password |-> NoArg,
               order |-> FALSE, limit |-> 0, offset |-> 0,
               err |-> Nil, code |-> OK, msg |-> NoArg,
               respNil |-> TRUE, users |-> <<>>, pre |-> <<>>]
    /\ calls = <<>>
    /\ logs = <<>>
    /\ created = {data[i].name : i \in 1..Len(data)}
    /\ hist = <<>>

Frame == UNCHANGED <<last, calls, logs, created, hist>>

\* ctxWithTimeout, cancel := context.WithTimeout(ctx, contextTimeout)
Begin(p, op, n, pw) ==
    /\ proc[p].pc = "idle"
    /\ proc' = [proc EXCEPT ![p] =
                  [Idle EXCEPT !.pc = "first", !.op = op, !.name = n,
                               !.password = pw, !.ctx = "live"]]
    /\ UNCHANGED data
    /\ Frame

First(p, f) ==
    LET c == proc[p]
        r == IF c.op = "UserList"
             THEN DataUserList(data, TRUE, MaxLimit, 0, f)
             ELSE DataUserGet(data, c.name, f)
        a == AfterFirst(c.op, r.err)
    IN  /\ c.pc = "first"
        /\ Admit(proc, p)
        /\ proc' = [proc EXCEPT ![p] =
                      [c EXCEPT !.pc = a.pc, !.got = r.err, !.err = a.err,
                                !.hadAtLookup = Records(data, c.name) # {}]]
        /\ UNCHANGED data
        /\ Frame

Second(p, f) ==
    LET c == proc[p]
        u == User(c.name, c.password)
        r == CASE c.op = "UserCreate" -> DataUserCreate(data, u, f)
               [] c.op = "UserUpdate" -> DataUserUpdate(data, u, f)
               [] OTHER -> DataUserDelete(data, c.name, f)
    IN  /\ c.pc = "second"
        /\ proc' = [proc EXCEPT ![p] =
                      [c EXCEPT !.pc = "reply", !.ans = r.err, !.err = r.err,
                                !.hadAtWrite = Records(data, c.name) # {}]]
        /\ data' = r.data
        /\ Frame

\* a handler without its deferred cancel
ReturnNoCancel(c) ==
    [c EXCEPT !.pc = "done", !.code = CodeOf(c.op, c.err),
              !.returned = c.returned + 1]

\* return nil, status.Error(...) or return &pb...Response{}, nil; then the
\* deferred cancel() releases the context
Return(c) ==
    [c EXCEPT !.pc = "done", !.code = CodeOf(c.op, c.err),
              !.ctx = "released", !.returned = c.returned + 1]

Reply(p) ==
    LET c == proc[p]
    IN  /\ c.pc = "reply"
        /\ proc' = [proc EXCEPT ![p] = Return(c)]
        /\ UNCHANGED data
        /\ Frame

Advance(p) ==
    \/ \E f \in GetFaults : First(p, f)
    \/ \E f \in WriteFaults : Second(p, f)
    \/ Reply(p)

NextConc ==
    \/ \E p \in Procs, op \in {"UserCreate", "UserUpdate"}, n \in ConcNames,
          pw \in Passwords : Begin(p, op, n, pw)
    \/ \E p \in Procs, op \in {"UserDelete", "UserGet"}, n \in ConcNames :
          Begin(p, op, n, NoArg)
    \/ \E p \in Procs : Begin(p, "UserList", NoArg, NoArg)
    \/ \E p \in Procs, f \in GetFaults : First(p, f)
    \/ \E p \in Procs, f \in WriteFaults : Second(p, f)
    \/ \E p \in Procs : Reply(p)

SpecConc == InitConc /\ [][NextConc]_vars

\* every goroutine is scheduled and the Storage Port answers every invocation
SpecLive == SpecConc /\ \A p \in Procs : WF_vars(Advance(p))

TypeOK ==
    /\ \A i \in 1..Len(data) : data[i].name \in Names /\ data[i].password \in Passwords
    /\ last.err \in Errors \cup {Nil}
    /\ created \subseteq Names

----------------------------------------------------------------------------
(* Claims *)

\* the last call of the history, the one before it, and the one before that
H0 == hist[Len(hist)]
H1 == hist[Len(hist) - 1]
H2 == hist[Len(hist) - 2]

Invoked(fn) == \E i \in 1..Len(calls) : calls[i].fn = fn

\* C1: Create(n, p1) on a storage with no record for n, then Create(n, p2),
\* with a Storage Port that does not fail: the first returns success, the
\* second ErrUserAlreadyExists, and the storage then holds exactly one record
\* for n, with password p1.
C1_CreateTwice ==
    (/\ Len(hist) >= 2
     /\ H1.op = "UserCreate" /\ ~H1.had
     /\ H0.op = "UserCreate" /\ H0.name = H1.name)
    => /\ H1.err = Nil
       /\ H0.err = ErrUserAlreadyExists
       /\ Cardinality(Records(data, H0.name)) = 1
       /\ \A i \in Records(data, H0.name) : data[i].password = H1.password

C1_Witness ==
    /\ Len(hist) >= 2
    /\ H1.op = "UserCreate" /\ ~H1.had /\ H1.password = "p1"
    /\ H0.op = "UserCreate" /\ H0.name = H1.name /\ H0.password = "p2"
    /\ H0.err = ErrUserAlreadyExists
    /\ \E i \in 1..Len(data) : data[i] = User(H0.name, "p1")

\* C2: Update and Delete of a name that was never created fail with
\* ErrUserNotFound; Create(n, p) then Update(n, p') succeeds, and a Get(n)
\* after them returns the record with password p'.
C2_MutateRequiresExistence ==
    /\ (/\ Len(hist) >= 1
        /\ H0.op \in {"UserUpdate", "UserDelete"}
        /\ H0.name \notin created)
       => H0.err = ErrUserNotFound
    /\ (/\ Len(hist) >= 2
        /\ H1.op = "UserCreate"
        /\ H0.op = "UserUpdate" /\ H0.name = H1.name)
       => /\ H0.err = Nil
          /\ \A i \in Records(data, H0.name) : data[i].password = H0.password
    /\ (/\ Len(hist) >= 3
        /\ H2.op = "UserCreate"
        /\ H1.op = "UserUpdate" /\ H1.name = H2.name
        /\ H0.op = "UserGet" /\ H0.name = H2.name)
       => /\ H1.err = Nil
          /\ H0.err = Nil
          /\ last.users = <<User(H0.name, H1.password)>>

C2_Witness ==
    /\ Len(hist) >= 3
    /\ H2.op = "UserCreate" /\ H2.err = Nil /\ H2.password = "p1"
    /\ H1.op = "UserUpdate" /\ H1.name = H2.name /\ H1.password = "p2"
    /\ H0.op = "UserGet" /\ H0.name = H2.name
    /\ last.users = <<User(H0.name, "p2")>>
    /\ \E n \in Names : n \notin created

\* C3: after Create(n, p) and Delete(n) both succeeded, Get(n) fails with
\* ErrUserNotFound, and so does a second Delete(n), which invokes no storage
\* delete.
C3_DeleteTerminal ==
    (/\ Len(hist) >= 3
     /\ H2.op = "UserCreate" /\ H2.err = Nil
     /\ H1.op = "UserDelete" /\ H1.name = H2.name /\ H1.err = Nil
     /\ H0.op \in {"UserGet", "UserDelete"} /\ H0.name = H2.name)
    => /\ H0.err = ErrUserNotFound
       /\ ~Invoked("UserDelete")
       /\ Records(data, H0.name) = {}

C3_Witness ==
    /\ Len(hist) >= 3
    /\ H2.op = "UserCreate" /\ H2.err = Nil
    /\ H1.op = "UserDelete" /\ H1.name = H2.name /\ H1.err = Nil
    /\ H0.op = "UserDelete" /\ H0.name = H2.name
    /\ H0.err = ErrUserNotFound
    /\ calls = <<Call("UserGet", ErrUserNotFound)>>

\* C4: whatever calls ran, one at a time and with whatever failures of the
\* Storage Port, the storage holds at most one record per name, although the
\* Storage Port's create appends without looking.
C4_Unique == \A n \in Names : Cardinality(Records(data, n)) <= 1

C4_Witness ==
    /\ last.op = "UserCreate"
    /\ Records(last.pre, last.name) # {}
    /\ last.err = ErrUserAlreadyExists
    /\ Len(data) = Cardinality(Names)
    /\ C4_Unique

\* C5: a Create with an empty name fails with ErrValidation and invokes the
\* Storage Port not at all, whatever the password.
C5_ValidationShortCircuit ==
    (last.op = "UserCreate" /\ last.name = "")
    => (last.err = ErrValidation /\ calls = <<>>)

\* C6: when the Storage Port answers every invocation with ErrTimeout, each
\* of the five operations returns ErrTimeout from the Domain Service and
\* deadline-exceeded from the Transport Adapter, and UserList's response is
\* present and holds no user.
AllTimedOut ==
    /\ last.op # "none"
    /\ \A i \in 1..Len(calls) : calls[i].err = ErrTimeout

C6_TimeoutPassthrough ==
    AllTimedOut
    => /\ last.err = ErrTimeout
       /\ last.code = DeadlineExceeded
       /\ last.users = <<>>
       /\ last.op = "UserList" => ~last.respNil

C6_Witness ==
    /\ AllTimedOut
    /\ last.op = "UserList" /\ last.limit > 0 /\ last.offset = 0
    /\ Len(last.pre) >= 2
    /\ last.code = DeadlineExceeded /\ last.users = <<>> /\ ~last.respNil

\* C7 as stated: the status of UserCreate, UserUpdate, UserDelete and UserGet
\* follows one table: ErrValidation -> InvalidArgument, ErrUserAlreadyExists
\* -> AlreadyExists, ErrUserNotFound -> InvalidArgument on Update/Delete/Get,
\* ErrTimeout -> DeadlineExceeded, anything else -> Internal, nil -> success.
Unary == {"UserCreate", "UserUpdate", "UserDelete", "UserGet"}

TableAsStated(op, err) ==
    CASE err = Nil -> OK
      [] err = ErrValidation -> InvalidArgument
      [] err = ErrUserAlreadyExists -> AlreadyExists
      [] err = ErrUserNotFound /\ op # "UserCreate" -> InvalidArgument
      [] err = ErrTimeout -> DeadlineExceeded
      [] OTHER -> Internal

TableOfHandlers(op, err) ==
    CASE err = Nil -> OK
      [] err = ErrValidation -> InvalidArgument
      [] err = ErrUserAlreadyExists /\ op = "UserCreate" -> AlreadyExists
      [] err = ErrUserNotFound /\ op # "UserCreate" -> InvalidArgument
      [] err = ErrTimeout -> DeadlineExceeded
      [] OTHER -> Internal

Swallowed(i) ==
    last.op = "UserCreate" /\ i = 1 /\ calls[i].err = ErrUserNotFound

FromStorage ==
    \E i \in 1..Len(calls) : calls[i].err = last.err /\ ~Swallowed(i)

C8_NeverSwallows ==
    last.op # "none"
    => /\ \A i \in 1..Len(calls) :
            (calls[i].err # Nil /\ ~Swallowed(i)) => last.err = calls[i].err
       /\ (last.err # Nil /\ ~FromStorage)
            <=> (last.op = "UserCreate" /\ calls[1].err = Nil)
       /\ (last.op = "UserCreate" /\ calls[1].err = Nil)
            => last.err = ErrUserAlreadyExists

C8_Witness ==
    /\ last.op = "UserDelete"
    /\ Len(calls) = 2
    /\ calls[2].err = ErrOther
    /\ last.err = ErrOther

\* C9: every handler answers either a present response with no status, or
\* one failure status with the error's message and no response; a failed
\* Domain Service call is never answered as a success.
C9_ReplyShape ==
    last.op # "none"
    => \/ last.err = Nil /\ last.code = OK /\ ~last.respNil
       \/ last.err # Nil /\ last.code # OK /\ last.msg = last.err /\ last.respNil

\* C10: no log record of a call, the Transport Adapter's or the Domain
\* Service's, carries the password of the request.
C10_NoPasswordInLogs ==
    \A i \in 1..Len(logs) : logs[i].password \notin Passwords

\* C11: List hands the caller's order, limit and offset to the Storage Port
\* and returns the Storage Port's page unchanged; on records a, b, c, d
\* inserted in that order, List(ascending, limit 2, offset 1) returns b, c.
NamesOf(s) == [i \in 1..Len(s) |-> s[i].name]

C13_CreateDecision ==
    last.op = "UserCreate"
    => /\ calls[1].fn = "UserGet"
       /\ calls[1].err = Nil
          => (last.err = ErrUserAlreadyExists /\ Len(calls) = 1 /\ data = last.pre)
       /\ calls[1].err \notin {Nil, ErrUserNotFound}
          => (last.err = calls[1].err /\ Len(calls) = 1 /\ data = last.pre)
       /\ calls[1].err = ErrUserNotFound
          => (Len(calls) = 2 /\ calls[2].fn = "UserCreate" /\ last.err = calls[2].err)

C13_Witness ==
    /\ last.op = "UserCreate"
    /\ Records(last.pre, last.name) = {}
    /\ calls = <<Call("UserGet", ErrTimeout)>>
    /\ last.err = ErrTimeout
    /\ data = last.pre

\* C14: when the lookup of Update or Delete fails, with ErrUserNotFound,
\* ErrTimeout or anything else, the call returns that failure, invokes no
\* storage update or delete and leaves the storage unchanged; the storage
\* write is invoked only after a successful lookup.
WriteOf(op) ==
    CASE op = "UserCreate" -> "UserCreate"
      [] op = "UserUpdate" -> "UserUpdate"
      [] op = "UserDelete" -> "UserDelete"
      [] OTHER -> NoArg

C14_LookupGuardsWrite ==
    last.op \in {"UserUpdate", "UserDelete"}
    => /\ calls[1].fn = "UserGet"
       /\ calls[1].err # Nil
          => (last.err = calls[1].err /\ Len(calls) = 1 /\ data = last.pre)
       /\ Invoked(WriteOf(last.op))
          => (calls[1].err = Nil /\ Len(calls) = 2 /\ calls[2].fn = WriteOf(last.op))

C14_Witness ==
    /\ last.op = "UserUpdate"
    /\ Records(last.pre, last.name) # {}
    /\ calls = <<Call("UserGet", ErrTimeout)>>
    /\ last.err = ErrTimeout
    /\ data = last.pre

\* C15: when the Domain Service's List fails with anything but ErrTimeout,
\* UserList answers a success: a present response with no user and no status.
C15_ListSwallows ==
    (last.op = "UserList" /\ last.err \notin {Nil, ErrTimeout})
    => /\ last.code = OK
       /\ last.msg = NoArg
       /\ ~last.respNil
       /\ last.users = <<>>

C15_Witness ==
    /\ last.op = "UserList"
    /\ last.err = ErrOther
    /\ last.pre # <<>>
    /\ last.code = OK /\ last.users = <<>>

\* C16: one call of Create, Update or Delete invokes the Storage Port at
\* most twice, the lookup first and then at most one write; Get and List
\* invoke it exactly once; an invocation that fails with ErrTimeout is the
\* call's last one and ErrTimeout is what the call returns.
C16_NoRetry ==
    last.op # "none"
    => /\ last.op \in {"UserCreate", "UserUpdate", "UserDelete"}
          => /\ Len(calls) \in {1, 2}
             /\ calls[1].fn = "UserGet"
             /\ Len(calls) = 2 => calls[2].fn = WriteOf(last.op)
       /\ last.op = "UserGet" => (Len(calls) = 1 /\ calls[1].fn = "UserGet")
       /\ last.op = "UserList" => (Len(calls) = 1 /\ calls[1].fn = "UserList")
       /\ \A i \in 1..Len(calls) :
             calls[i].err = ErrTimeout => (i = Len(calls) /\ last.err = ErrTimeout)

C16_Witness ==
    /\ last.op = "UserUpdate"
    /\ calls = <<Call("UserGet", Nil), Call("UserUpdate", ErrTimeout)>>
    /\ last.err = ErrTimeout

\* C17: Get and List make one Storage Port read, return its result
\* unchanged, invoke no write and leave the storage unchanged; Get of an
\* absent name returns the Storage Port's ErrUserNotFound, List on an empty
\* storage an empty sequence and no failure.
C17_ReadOnly ==
    last.op \in {"UserGet", "UserList"}
    => /\ Len(calls) = 1
       /\ calls[1].fn = (IF last.op = "UserGet" THEN "UserGet" ELSE "UserList")
       /\ last.err = calls[1].err
       /\ data = last.pre
       /\ (last.op = "UserGet" /\ calls[1].err = Nil)
          => last.users = <<DataUserGet(last.pre, last.name, NoFault).user>>
       /\ (last.op = "UserGet" /\ calls[1].err = ErrUserNotFound)
          => (last.err = ErrUserNotFound /\ Records(last.pre, last.name) = {})
       /\ (last.op = "UserList" /\ calls[1].err = Nil)
          => /\ last.users = DataUserList(last.pre, last.order, last.limit,
                                          last.offset, NoFault).users
             /\ last.pre = <<>> => (last.users = <<>> /\ last.code = OK)

C17_Witness ==
    /\ last.op = "UserGet"
    /\ last.pre # <<>>
    /\ Records(last.pre, last.name) = {}
    /\ calls = <<Call("UserGet", ErrUserNotFound)>>
    /\ last.err = ErrUserNotFound
    /\ data = last.pre

\* C12: two concurrent Creates of one absent name can both get
\* ErrUserNotFound from their lookups before either storage create runs, and
\* then both invoke storage create.  No call ever waits for another: a call's
\* next Storage Port invocation can run in every state; a Create whose lookup
\* answered ErrUserNotFound invokes storage create, and its result is the
\* Storage Port's answer.
C12_NoExclusion ==
    \A p \in Procs :
        /\ proc[p].pc = "first" => ENABLED (\E f \in GetFaults : First(p, f))
        /\ proc[p].pc = "second" => ENABLED (\E f \in WriteFaults : Second(p, f))
        /\ (proc[p].pc \in {"reply", "done"} /\ proc[p].op = "UserCreate")
           => /\ proc[p].ans # NoArg <=> proc[p].got = ErrUserNotFound
              /\ proc[p].ans # NoArg => proc[p].err = proc[p].ans

\* both Creates passed the check and both wrote: a double write
C12_Witness ==
    /\ \A p \in Procs :
          /\ proc[p].op = "UserCreate" /\ proc[p].name = "a"
          /\ proc[p].pc = "reply"
          /\ proc[p].got = ErrUserNotFound /\ ~proc[p].hadAtLookup
          /\ proc[p].ans = Nil
    /\ Cardinality(Records(data, "a")) = 2

\* C18 as stated: under any interleaving, storage update and storage delete
\* are invoked only while a record of the name exists, and storage create
\* only while none exists.
Wrote(p) == proc[p].pc \in {"reply", "done"} /\ proc[p].ans # NoArg

C18_ExistsAtWrite ==
    \A p \in Procs :
        Wrote(p)
        => /\ proc[p].op \in {"UserUpdate", "UserDelete"} => proc[p].hadAtWrite
           /\ proc[p].op = "UserCreate" => ~proc[p].hadAtWrite

\* C18 amended: storage update and storage delete are invoked only by a call
\* whose own lookup found a record of the name, which existed at the moment
\* of the lookup, and storage create only by a call whose lookup found none.
C18_ExistsAtLookup ==
    \A p \in Procs :
        Wrote(p)
        => /\ proc[p].op \in {"UserUpdate", "UserDelete"}
              => (proc[p].got = Nil /\ proc[p].hadAtLookup)
           /\ proc[p].op = "UserCreate"
              => (proc[p].got = ErrUserNotFound /\ ~proc[p].hadAtLookup)

\* an Update that wrote after a concurrent Delete removed the record
C18_Witness ==
    \E p, q \in Procs :
        /\ p # q
        /\ Wrote(p) /\ proc[p].op = "UserUpdate"
        /\ proc[p].hadAtLookup /\ ~proc[p].hadAtWrite
        /\ Wrote(q) /\ proc[q].op = "UserDelete" /\ proc[q].ans = Nil

\* C19: with a Storage Port that answers every invocation and under weak
\* fairness, every started call returns to its caller, exactly once, and its
\* context is released when it has returned.
InFlight(p) == proc[p].pc \in {"first", "second", "reply"}
Returned(p) == proc[p].pc = "done"

C19_BoundedResponse ==
    /\ \A p \in Procs : InFlight(p) ~> Returned(p)
    /\ [](\A p \in Procs :
            /\ InFlight(p) => (proc[p].returned = 0 /\ proc[p].ctx = "live")
            /\ Returned(p) => (proc[p].returned = 1 /\ proc[p].ctx = "released"))

C19_Witness ==
    \E p \in Procs :
        /\ Returned(p)
        /\ proc[p].op = "UserUpdate"
        /\ proc[p].ans = ErrTimeout /\ proc[p].code = DeadlineExceeded
        /\ proc[p].returned = 1 /\ proc[p].ctx = "released"

====
